---- MODULE Spec2Model ----
(***************************************************************************)
(* Model of the raw-socket HTTP transport of RESTler,                      *)
(* restler/engine/transport_layer/messaging.py (class HttpRawSock).        *)
(*                                                                         *)
(* Text is modelled as a sequence of tokens.  A token is either a single   *)
(* character ("a", "e2" = a two-byte UTF-8 character, a decimal digit) or  *)
(* a fixed ASCII string that the code searches for or that only matters    *)
(* through its length:                                                     *)
(*   "CRLF" = "\r\n"            "CL" = "Content-Length: "                  *)
(*   "cl"   = "content-length: "                                           *)
(*   "UA"   = "User-Agent: restler/<version>"                              *)
(*   "SP"   = " "   "PATH" = "/x HTTP/1.1"   "HOST" = "Host: h"            *)
(*   "S200" = "HTTP/1.1 200", "S204", "S304" likewise                      *)
(*   "TE"   = "Transfer-Encoding: chunked", "te" = the all-lower-case      *)
(*            spelling, "tE" = any other letter-casing of it               *)
(* Bytes are tokens too: an ASCII token encodes to itself, "e2" encodes to *)
(* the two bytes "xC3" "xA9", and "xFF" is a byte no UTF-8 text contains.  *)
(* The model covers Settings().use_test_socket = False.                    *)
(***************************************************************************)
EXTENDS Integers, Sequences, FiniteSets, TLC

(***************************************************************************)
(* Bounds of the model.                                                    *)
(***************************************************************************)
NumSessions == 2    \* sessions (one thread each)
MaxCalls == 2       \* external sendRecv calls per session
MaxReads == 3       \* reads that return data, per attempt
MaxBodyLen == 2     \* characters in a request body
CountCap == 3       \* the send and reconnect counters saturate here
ReceivedCap == 48   \* bytes_received is counted up to here in an endless chunked loop

(***************************************************************************)
(* Program constants.                                                      *)
(***************************************************************************)
ContentLenFallback == 1048576   \* content_len = 2**20

Sessions == 1..NumSessions

DELIM == <<"CRLF", "CRLF">>

Range(f) == {f[i] : i \in DOMAIN f}

Min(a, b) == IF a < b THEN a ELSE b

(***************************************************************************)
(* Lengths: len() of a str counts characters, len() of bytes counts bytes. *)
(***************************************************************************)
CharLen(tok) ==
    CASE tok = "CRLF" -> 2
      [] tok \in {"CL", "cl"} -> 16
      [] tok = "UA" -> 25
      [] tok \in {"POST", "HEAD"} -> 4
      [] tok = "PATH" -> 11
      [] tok = "HOST" -> 7
      [] tok \in {"S200", "S204", "S304"} -> 12
      [] tok \in {"TE", "te", "tE"} -> 26
      [] OTHER -> 1

RECURSIVE TextLen(_)
TextLen(t) == IF t = <<>> THEN 0 ELSE CharLen(Head(t)) + TextLen(Tail(t))

\* every byte token other than the ASCII strings above is one byte wide
RECURSIVE ByteLen(_)
ByteLen(b) == IF b = <<>> THEN 0 ELSE CharLen(Head(b)) + ByteLen(Tail(b))

(***************************************************************************)
(* str.encode('utf-8') and bytes.decode('utf-8'[, "ignore"]).              *)
(***************************************************************************)
RECURSIVE Encode(_)
Encode(t) ==
    IF t = <<>> THEN <<>>
    ELSE (IF Head(t) = "e2" THEN <<"xC3", "xA9">> ELSE <<Head(t)>>) \o Encode(Tail(t))

RECURSIVE Decodable(_)
Decodable(b) ==
    IF b = <<>> THEN TRUE
    ELSE IF Head(b) = "xC3"
         THEN Len(b) >= 2 /\ b[2] = "xA9" /\ Decodable(Tail(Tail(b)))
         ELSE Head(b) \notin {"xA9", "xFF"} /\ Decodable(Tail(b))

\* decoding with errors="ignore" drops the bytes that are not part of a character
RECURSIVE DecodeIgnore(_)
DecodeIgnore(b) ==
    IF b = <<>> THEN <<>>
    ELSE IF Head(b) = "xC3" /\ Len(b) >= 2 /\ b[2] = "xA9"
         THEN <<"e2">> \o DecodeIgnore(Tail(Tail(b)))
         ELSE IF Head(b) \in {"xC3", "xA9", "xFF"}
              THEN DecodeIgnore(Tail(b))
              ELSE <<Head(b)>> \o DecodeIgnore(Tail(b))

(***************************************************************************)
(* Decimal formatting (f"{contentlen}") and parsing (int(...)).            *)
(***************************************************************************)
DigitChars == <<"0", "1", "2", "3", "4", "5", "6", "7", "8", "9">>

RECURSIVE IntToDigits(_)
IntToDigits(n) ==
    IF n < 10 THEN <<DigitChars[n + 1]>>
    ELSE IntToDigits(n \div 10) \o <<DigitChars[(n % 10) + 1]>>

DigitValue(d) == CHOOSE v \in 0..9 : DigitChars[v + 1] = d

IsNumber(ds) == ds # <<>> /\ \A i \in DOMAIN ds : ds[i] \in Range(DigitChars)

RECURSIVE DigitsToInt(_)
DigitsToInt(ds) ==
    IF ds = <<>> THEN 0
    ELSE 10 * DigitsToInt(SubSeq(ds, 1, Len(ds) - 1)) + DigitValue(ds[Len(ds)])

(***************************************************************************)
(* Searching text.  Positions are 1-based token positions; 0 = not found   *)
(* (str.find gives -1 and str.index raises ValueError there).              *)
(***************************************************************************)
HasDelim(t) == \E i \in 1..(Len(t) - 1) : t[i] = "CRLF" /\ t[i + 1] = "CRLF"

IndexOfDelim(t) ==
    IF HasDelim(t)
    THEN CHOOSE i \in 1..(Len(t) - 1) :
            /\ t[i] = "CRLF" /\ t[i + 1] = "CRLF"
            /\ \A j \in 1..(i - 1) : ~(t[j] = "CRLF" /\ t[j + 1] = "CRLF")
    ELSE 0

EndsWithDelim(t) == Len(t) >= 2 /\ t[Len(t) - 1] = "CRLF" /\ t[Len(t)] = "CRLF"

\* the first position of any token of the set toks, 0 if there is none
IndexOfAny(t, toks) ==
    IF \E i \in DOMAIN t : t[i] \in toks
    THEN CHOOSE i \in DOMAIN t : t[i] \in toks /\ \A j \in 1..(i - 1) : t[j] \notin toks
    ELSE 0

\* the tokens of t before the first "CRLF" (all of t if there is none)
UpToCRLF(t) ==
    LET i == IndexOfAny(t, {"CRLF"})
    IN  IF i = 0 THEN t ELSE SubSeq(t, 1, i - 1)

(***************************************************************************)
(* _sendRequest, lines 316-330: the framing of the outgoing message.       *)
(***************************************************************************)
get_end_of_header(message) == IndexOfDelim(message)

get_start_of_body(message) == get_end_of_header(message) + Len(DELIM)

BodyOf(message) == SubSeq(message, get_start_of_body(message), Len(message))

HeaderOf(message) == SubSeq(message, 1, get_end_of_header(message) - 1)

append_to_header(message, content) ==
    HeaderOf(message) \o <<"CRLF">> \o content \o DELIM \o BodyOf(message)

\* contentlen = len(message[_get_start_of_body(message):]) : a count of characters
ContentLenOf(message) == TextLen(BodyOf(message))

NeedsContentLength(message) == "CL" \notin Range(message)

Frame(message, include_user_agent) ==
    LET m1 == IF NeedsContentLength(message)
              THEN append_to_header(message, <<"CL">> \o IntToDigits(ContentLenOf(message)))
              ELSE message
    IN  IF include_user_agent THEN append_to_header(m1, <<"UA">>) ELSE m1

\* _get_method_from_message: the text before the first space
get_method_from_message(message) ==
    LET i == IndexOfAny(message, {"SP"})
    IN  IF i = 0 THEN SubSeq(message, 1, Len(message) - 1) ELSE SubSeq(message, 1, i - 1)


(***************************************************************************)
(* _recvResponse, lines 411-450: what the buffered header says.            *)
(***************************************************************************)
\* 'Transfer-Encoding: chunked\r\n' in data or 'transfer-encoding: chunked\r\n' in data
IsChunked(d) ==
    \E i \in 1..(Len(d) - 1) : d[i] \in {"TE", "te"} /\ d[i + 1] = "CRLF"

\* header_len = data.index(DELIM) + len(DELIM) : a count of characters
HeaderLen(d) == TextLen(SubSeq(d, 1, IndexOfDelim(d) + 1))

\* data_lower.split("content-length: ")[1], then .split('\r\n')[0], then int(...)
DeclaredLength(d) ==
    LET i == IndexOfAny(d, {"CL", "cl"})
        rest == SubSeq(d, i + 1, Len(d))
        j == IndexOfAny(rest, {"CL", "cl"})
        field == UpToCRLF(IF j = 0 THEN rest ELSE SubSeq(rest, 1, j - 1))
    IN  IF i # 0 /\ IsNumber(field) THEN DigitsToInt(field) ELSE ContentLenFallback

\* content_len without lines 438-441
ContentLenDeclared(d, method_name) == DeclaredLength(d)

ContentLen(d, method_name) ==
    IF d # <<>> /\ d[1] \in {"S204", "S304"} THEN 0
    ELSE IF method_name = <<"HEAD">> THEN 0
    ELSE DeclaredLength(d)

BytesRemain(d, received, method_name) ==
    ContentLen(d, method_name) - received + HeaderLen(d)

(***************************************************************************)
(* Errors.  An OS error is known by the two things sendRecv looks for in   *)
(* its text: 'timed out', and one of the connection-closed strings.        *)
(***************************************************************************)
NoExc == [type |-> "none", timedOut |-> FALSE, closedStr |-> FALSE]

OSErrors == {[type |-> "OSError", timedOut |-> t, closedStr |-> c] : t, c \in BOOLEAN}

\* [Errno 9] Bad file descriptor: the socket object was closed
BadDescriptor == [type |-> "OSError", timedOut |-> FALSE, closedStr |-> FALSE]

\* raise TransportLayerException(f"...: {error!s}") keeps the text of the error
Wrap(e) == [e EXCEPT !.type = "TransportLayerException"]

AttributeError == [type |-> "AttributeError", timedOut |-> FALSE, closedStr |-> FALSE]

UnicodeDecodeError == [type |-> "UnicodeDecodeError", timedOut |-> FALSE, closedStr |-> FALSE]

ConnectionSetupError == [type |-> "ConnectionSetupError", timedOut |-> FALSE, closedStr |-> FALSE]

\* _contains_connection_closed
contains_connection_closed(e) == e.closedStr

NoResult == [success |-> FALSE, status |-> "none", text |-> <<>>, error |-> NoExc]

(***************************************************************************)
(* State.                                                                  *)
(***************************************************************************)
VARIABLES
    settings,        \* Settings(): throttle configured, ignore_decoding_failures,
                     \* connection_settings.include_user_agent
    request_sem,     \* HttpRawSock.__request_sem, a Semaphore() of value 1
    pc,              \* where each session's thread is
    calls,           \* external sendRecv calls a session has made
    msg,             \* sendRecv's message
    reconnect,       \* sendRecv's reconnect parameter
    connected,       \* self._connected
    sock,            \* self._sock: "None", or the state of the socket it names
    nopen,           \* sockets the session has opened and not closed
    framed,          \* _sendRequest's message after framing
    pending,         \* the exception _sendRequest's try raised, while finally runs
    exc,             \* the exception last raised in sendRecv
    data,            \* _recvResponse's data
    bytes_received,  \* _recvResponse's bytes_received
    bytes_remain,    \* _recvResponse's bytes_remain
    reads,           \* reads of this attempt that returned data
    wire,            \* what sendall wrote during this call, one entry per write
    sends,           \* sendall calls of this call
    reconnects,      \* sendRecv(reconnect=True) calls of this call
    firstFail,       \* why the first attempt of this call was retried
    result           \* what the call returned

callVars == <<calls, msg, wire, sends>>
retryVars == <<reconnect, reconnects, firstFail>>
connVars == <<connected, sock, nopen>>
recvVars == <<data, bytes_received, bytes_remain, reads>>
vars == <<settings, request_sem, pc, framed, pending, exc, result,
          callVars, retryVars, connVars, recvVars>>

AllSettings == [throttle : BOOLEAN, ignore : BOOLEAN, ua : BOOLEAN]

InitWith(S) ==
    /\ settings \in S
    /\ request_sem = 1
    /\ pc = [s \in Sessions |-> "idle"]
    /\ calls = [s \in Sessions |-> 0]
    /\ msg = [s \in Sessions |-> <<>>]
    /\ reconnect = [s \in Sessions |-> FALSE]
    /\ connected = [s \in Sessions |-> FALSE]
    /\ sock = [s \in Sessions |-> "None"]
    /\ nopen = [s \in Sessions |-> 0]
    /\ framed = [s \in Sessions |-> <<>>]
    /\ pending = [s \in Sessions |-> NoExc]
    /\ exc = [s \in Sessions |-> NoExc]
    /\ data = [s \in Sessions |-> <<>>]
    /\ bytes_received = [s \in Sessions |-> 0]
    /\ bytes_remain = [s \in Sessions |-> 0]
    /\ reads = [s \in Sessions |-> 0]
    /\ wire = [s \in Sessions |-> <<>>]
    /\ sends = [s \in Sessions |-> 0]
    /\ reconnects = [s \in Sessions |-> 0]
    /\ firstFail = [s \in Sessions |-> "none"]
    /\ result = [s \in Sessions |-> NoResult]

(***************************************************************************)
(* sendRecv, lines 242-281.                                                *)
(***************************************************************************)
Goto(s, p) == pc' = [pc EXCEPT ![s] = p]

CaughtAny(e) == TRUE

\* except TransportLayerException (line 265): any other exception leaves sendRecv
Caught(e) == e.type = "TransportLayerException"

Raise(s, e) ==
    /\ exc' = [exc EXCEPT ![s] = e]
    /\ Goto(s, IF Caught(e) THEN "except" ELSE "raised")

\* lines 243-248 without the _closeSocket() of lines 245-246
EnterPcNoClose(rc, conn, sk) == IF rc \/ ~conn THEN "setup" ELSE "send"

\* lines 243-246: where sendRecv(message, req_timeout_sec, reconnect=rc) starts
EnterPc(rc, conn, sk) ==
    IF rc \/ ~conn
    THEN (IF rc /\ sk # "None" THEN "close" ELSE "setup")
    ELSE "send"

\* the caller's sendRecv(message, req_timeout_sec)
sendRecv(s, M, maxCalls) ==
    /\ pc[s] = "idle"
    /\ calls[s] < maxCalls
    /\ \E m \in M : msg' = [msg EXCEPT ![s] = m]
    /\ calls' = [calls EXCEPT ![s] = @ + 1]
    /\ Goto(s, EnterPc(FALSE, connected[s], sock[s]))
    /\ UNCHANGED <<settings, request_sem, framed, pending, exc, result, wire, sends,
                   retryVars, connVars, recvVars>>

RetryAlways(rc) == TRUE

RetryNever(rc) == FALSE

\* "not reconnect", lines 254, 273, 278: the guard of
\* return self.sendRecv(message, req_timeout_sec, reconnect=True)
RetryAllowed(rc) == ~rc

RetryMessageFramed(message, framedMessage) == framedMessage

\* the message of the recursive call (lines 257, 275, 280) is sendRecv's own
\* parameter: _sendRequest framed a local of its own (lines 326-330)
RetryMessage(message, framedMessage) == message

\* the locals of the attempt that ended are no longer used
Retry(s, why) ==
    /\ msg' = [msg EXCEPT ![s] = RetryMessage(@, framed[s])]
    /\ reconnect' = [reconnect EXCEPT ![s] = TRUE]
    /\ reconnects' = [reconnects EXCEPT ![s] = Min(@ + 1, CountCap)]
    /\ firstFail' = [firstFail EXCEPT ![s] = IF @ = "none" THEN why ELSE @]
    /\ Goto(s, EnterPc(TRUE, connected[s], sock[s]))
    /\ exc' = [exc EXCEPT ![s] = NoExc]
    /\ framed' = [framed EXCEPT ![s] = <<>>]
    /\ pending' = [pending EXCEPT ![s] = NoExc]
    /\ data' = [data EXCEPT ![s] = <<>>]
    /\ bytes_received' = [bytes_received EXCEPT ![s] = 0]
    /\ bytes_remain' = [bytes_remain EXCEPT ![s] = 0]
    /\ reads' = [reads EXCEPT ![s] = 0]

\* _closeSocket, lines 468-478, called from line 246
closeSocket(s, E) ==
    /\ pc[s] = "close"
    /\ sock' = [sock EXCEPT ![s] = "closed"]
    /\ nopen' = [nopen EXCEPT ![s] = IF sock[s] = "open" THEN @ - 1 ELSE @]
    /\ \E o \in {NoExc} \union (IF sock[s] = "open" THEN E ELSE {}) :
          IF o = NoExc
          THEN Goto(s, "setup") /\ UNCHANGED exc
          ELSE Raise(s, Wrap(o))
    /\ UNCHANGED <<settings, request_sem, framed, pending, result,
                   callVars, retryVars, connected, recvVars>>

\* what self.set_up_connection() can do
SetupOutcomes == {"connected", "ConnectionSetupError"}

\* lines 247-248
connect(s) ==
    /\ pc[s] = "setup"
    /\ \E o \in SetupOutcomes :
          IF o = "connected"
          THEN /\ sock' = [sock EXCEPT ![s] = "open"]
               /\ nopen' = [nopen EXCEPT ![s] = @ + 1]
               /\ connected' = [connected EXCEPT ![s] = TRUE]
               /\ Goto(s, "send")
               /\ UNCHANGED exc
          ELSE /\ Raise(s, ConnectionSetupError)
               /\ UNCHANGED connVars
    /\ UNCHANGED <<settings, request_sem, framed, pending, result,
                   callVars, retryVars, recvVars>>


(***************************************************************************)
(* _sendRequest, lines 306-341, with the throttle, lines 343-370.          *)
(***************************************************************************)
\* lines 326-330
sendRequest(s) ==
    /\ pc[s] = "send"
    /\ framed' = [framed EXCEPT ![s] = Frame(msg[s], settings.ua)]
    /\ pending' = [pending EXCEPT ![s] = NoExc]
    /\ Goto(s, "begin_throttle")
    /\ UNCHANGED <<settings, request_sem, exc, result, callVars, retryVars,
                   connVars, recvVars>>

\* _begin_throttle_request, called at line 333, outside the try of line 335.
\* Inside class HttpRawSock the name HttpSock.__request_sem (line 352) is mangled to
\* HttpSock._HttpRawSock__request_sem.  HttpSock (lines 28-52) has no such
\* attribute: the semaphore of line 151 belongs to HttpRawSock.  The lookup raises
\* AttributeError before acquire() is called, and request_sem stays as it is.
begin_throttle_request(s) ==
    /\ pc[s] = "begin_throttle"
    /\ IF settings.throttle
       THEN Raise(s, AttributeError)
       ELSE Goto(s, "sendall") /\ UNCHANGED exc
    /\ UNCHANGED <<settings, request_sem, framed, pending, result, callVars,
                   retryVars, connVars, recvVars>>

\* lines 335-339: self._sock.sendall(message.encode(UTF8))
sendall(s, E) ==
    /\ pc[s] = "sendall"
    /\ sends' = [sends EXCEPT ![s] = Min(@ + 1, CountCap)]
    /\ \E o \in IF sock[s] = "open" THEN {NoExc} \union E ELSE {BadDescriptor} :
          IF o = NoExc
          THEN /\ wire' = [wire EXCEPT ![s] = Append(@, Encode(framed[s]))]
               /\ UNCHANGED pending
          ELSE /\ pending' = [pending EXCEPT ![s] = Wrap(o)]
               /\ UNCHANGED wire
    /\ Goto(s, "end_throttle")
    /\ UNCHANGED <<settings, request_sem, framed, exc, result, calls, msg,
                   retryVars, connVars, recvVars>>

\* lines 340-341, the finally clause: _end_throttle_request, then the exception of
\* the try, if any, goes on to sendRecv; otherwise _recvResponse starts (line 253).
\* With a throttle configured line 370 looks up HttpSock.__request_sem as line 352
\* does.
end_throttle_request(s) ==
    /\ pc[s] = "end_throttle"
    /\ IF settings.throttle
       THEN Raise(s, AttributeError) /\ UNCHANGED recvVars
       ELSE IF pending[s] # NoExc
            THEN Raise(s, pending[s]) /\ UNCHANGED recvVars
            ELSE /\ Goto(s, "recv_header")
                 /\ data' = [data EXCEPT ![s] = <<>>]
                 /\ bytes_received' = [bytes_received EXCEPT ![s] = 0]
                 /\ bytes_remain' = [bytes_remain EXCEPT ![s] = 0]
                 /\ reads' = [reads EXCEPT ![s] = 0]
                 /\ UNCHANGED exc
    /\ UNCHANGED <<settings, request_sem, framed, pending, result, callVars,
                   retryVars, connVars>>

(***************************************************************************)
(* _recvResponse, lines 372-466.  A read returns bytes, returns no bytes   *)
(* (the peer closed the connection) or fails with an OS error.             *)
(***************************************************************************)
RecvOutcomes(s, C, E) ==
    {[kind |-> "eof", buf |-> <<>>, err |-> NoExc]}
    \union {[kind |-> "error", buf |-> <<>>, err |-> e] : e \in E}
    \union (IF reads[s] < MaxReads
            THEN {[kind |-> "data", buf |-> c, err |-> NoExc] : c \in C}
            ELSE {})

\* decode_buf, lines 385-394
DecodeRaises(buf, ignore_decoding_failures) ==
    ~Decodable(buf) /\ ~ignore_decoding_failures

decode_buf(buf) == DecodeIgnore(buf)

\* lines 411-450, once the header is buffered: which loop comes next
AfterHeader(s, d, received) ==
    IF IsChunked(d)
    THEN /\ Goto(s, IF EndsWithDelim(d) THEN "received" ELSE "recv_chunked")
         /\ UNCHANGED bytes_remain
    ELSE LET r == BytesRemain(d, received, get_method_from_message(msg[s]))
         IN  /\ bytes_remain' = [bytes_remain EXCEPT ![s] = r]
             /\ Goto(s, IF r > 0 THEN "recv_body" ELSE "received")

\* lines 396-409: while DELIM not in data
recvHeader(s, C, E) ==
    /\ pc[s] = "recv_header"
    /\ \E o \in RecvOutcomes(s, C, E) :
          CASE o.kind = "error" -> Raise(s, Wrap(o.err)) /\ UNCHANGED recvVars
            [] o.kind = "eof" -> Goto(s, "received") /\ UNCHANGED <<exc, recvVars>>
            [] o.kind = "data" ->
                 /\ bytes_received' = [bytes_received EXCEPT ![s] = @ + ByteLen(o.buf)]
                 /\ reads' = [reads EXCEPT ![s] = @ + 1]
                 /\ IF DecodeRaises(o.buf, settings.ignore)
                    THEN Raise(s, UnicodeDecodeError) /\ UNCHANGED <<data, bytes_remain>>
                    ELSE LET d == data[s] \o decode_buf(o.buf)
                         IN  /\ data' = [data EXCEPT ![s] = d]
                             /\ UNCHANGED exc
                             /\ IF HasDelim(d)
                                THEN AfterHeader(s, d, bytes_received'[s])
                                ELSE Goto(s, "recv_header") /\ UNCHANGED bytes_remain
    /\ UNCHANGED <<settings, request_sem, framed, pending, result, callVars,
                   retryVars, connVars>>

\* line 421: while True.  The head of the loop is a position of its own, so
\* that a pass of the loop that changes no variable is still a step.
chunkedLoop(s) ==
    /\ pc[s] = "recv_chunked"
    /\ Goto(s, "chunk_read")
    /\ UNCHANGED <<settings, request_sem, framed, pending, exc, result, callVars,
                   retryVars, connVars, recvVars>>

\* lines 422-434: one pass of the loop
recvChunked(s, C, E) ==
    /\ pc[s] = "chunk_read"
    /\ \E o \in RecvOutcomes(s, C, E) :
          CASE o.kind = "error" -> Raise(s, Wrap(o.err)) /\ UNCHANGED recvVars
            [] o.kind = "eof" -> Goto(s, "received") /\ UNCHANGED <<exc, recvVars>>
            [] o.kind = "data" ->
                 /\ bytes_received' = [bytes_received EXCEPT ![s] = @ + ByteLen(o.buf)]
                 /\ reads' = [reads EXCEPT ![s] = @ + 1]
                 /\ UNCHANGED bytes_remain
                 /\ IF DecodeRaises(o.buf, settings.ignore)
                    THEN Raise(s, UnicodeDecodeError) /\ UNCHANGED data
                    ELSE LET d == data[s] \o decode_buf(o.buf)
                         IN  /\ data' = [data EXCEPT ![s] = d]
                             /\ UNCHANGED exc
                             /\ Goto(s, IF EndsWithDelim(d) THEN "received" ELSE "recv_chunked")
    /\ UNCHANGED <<settings, request_sem, framed, pending, result, callVars,
                   retryVars, connVars>>

\* lines 422-434 for a peer that goes on sending after MaxReads reads: a buffer
\* of bytes that decode to nothing under the tolerance.  bytes_received, which
\* is not read again once this loop runs, is counted up to ReceivedCap.
recvChunkedMore(s) ==
    /\ pc[s] = "chunk_read"
    /\ reads[s] = MaxReads
    /\ settings.ignore
    /\ LET buf == <<"xFF">>
           d == data[s] \o decode_buf(buf)
       IN  /\ bytes_received' =
                 [bytes_received EXCEPT
                     ![s] = IF @ >= ReceivedCap THEN @ ELSE @ + ByteLen(buf)]
           /\ data' = [data EXCEPT ![s] = d]
           /\ Goto(s, IF EndsWithDelim(d) THEN "received" ELSE "recv_chunked")
    /\ UNCHANGED <<settings, request_sem, framed, pending, exc, result, callVars,
                   retryVars, connVars, bytes_remain, reads>>

\* lines 453-466: while bytes_remain > 0
recvBody(s, C, E) ==
    /\ pc[s] = "recv_body"
    /\ \E o \in RecvOutcomes(s, C, E) :
          CASE o.kind = "error" -> Raise(s, Wrap(o.err)) /\ UNCHANGED recvVars
            [] o.kind = "eof" -> Goto(s, "received") /\ UNCHANGED <<exc, recvVars>>
            [] o.kind = "data" ->
                 /\ bytes_remain' = [bytes_remain EXCEPT ![s] = @ - ByteLen(o.buf)]
                 /\ reads' = [reads EXCEPT ![s] = @ + 1]
                 /\ UNCHANGED bytes_received
                 /\ IF DecodeRaises(o.buf, settings.ignore)
                    THEN Raise(s, UnicodeDecodeError) /\ UNCHANGED data
                    ELSE /\ data' = [data EXCEPT ![s] = @ \o decode_buf(o.buf)]
                         /\ UNCHANGED exc
                         /\ Goto(s, IF bytes_remain'[s] > 0 THEN "recv_body" ELSE "received")
    /\ UNCHANGED <<settings, request_sem, framed, pending, result, callVars,
                   retryVars, connVars>>

(***************************************************************************)
(* sendRecv after _recvResponse has returned, and its except clause.       *)
(***************************************************************************)
IsEmptyNever(d) == FALSE

\* "not received_response", line 254
IsEmptyResponse(d) == d = <<>>

\* lines 254-264
handleResponse(s) ==
    /\ pc[s] = "received"
    /\ IF IsEmptyResponse(data[s]) /\ RetryAllowed(reconnect[s])
       THEN Retry(s, "empty") /\ UNCHANGED result
       ELSE /\ result' = [result EXCEPT ![s] =
                   [success |-> TRUE, status |-> "PARSED", text |-> data[s],
                    error |-> NoExc]]
            /\ Goto(s, "returned")
            /\ UNCHANGED <<msg, retryVars, framed, pending, exc, recvVars>>
    /\ UNCHANGED <<settings, request_sem, calls, wire, sends, connVars>>

IsTimeoutNever(e) == FALSE

\* 'timed out' in str(error), line 267
IsTimeout(e) == e.timedOut

ErrorStatusUnclassified(e) == IF e.timedOut THEN "TIMEOUT" ELSE "PARSED"

\* lines 266-277: the status of the response built from the error
ErrorStatus(e) ==
    IF IsTimeout(e) THEN "TIMEOUT"
    ELSE IF contains_connection_closed(e) THEN "CONNECTION_CLOSED"
    ELSE "PARSED"

\* lines 265-281
handleError(s) ==
    /\ pc[s] = "except"
    /\ IF ~IsTimeout(exc[s]) /\ RetryAllowed(reconnect[s])
       THEN /\ Retry(s, IF contains_connection_closed(exc[s]) THEN "closed" ELSE "other")
            /\ UNCHANGED result
       ELSE /\ result' = [result EXCEPT ![s] =
                   [success |-> FALSE, status |-> ErrorStatus(exc[s]), text |-> <<>>,
                    error |-> exc[s]]]
            /\ Goto(s, "returned")
            /\ UNCHANGED <<msg, retryVars, framed, pending, exc, recvVars>>
    /\ UNCHANGED <<settings, request_sem, calls, wire, sends, connVars>>

\* the caller has the result, or the exception, of its call: the call's locals go
finish(s) ==
    /\ pc[s] \in {"returned", "raised"}
    /\ Goto(s, "idle")
    /\ msg' = [msg EXCEPT ![s] = <<>>]
    /\ reconnect' = [reconnect EXCEPT ![s] = FALSE]
    /\ framed' = [framed EXCEPT ![s] = <<>>]
    /\ pending' = [pending EXCEPT ![s] = NoExc]
    /\ exc' = [exc EXCEPT ![s] = NoExc]
    /\ data' = [data EXCEPT ![s] = <<>>]
    /\ bytes_received' = [bytes_received EXCEPT ![s] = 0]
    /\ bytes_remain' = [bytes_remain EXCEPT ![s] = 0]
    /\ reads' = [reads EXCEPT ![s] = 0]
    /\ wire' = [wire EXCEPT ![s] = <<>>]
    /\ sends' = [sends EXCEPT ![s] = 0]
    /\ reconnects' = [reconnects EXCEPT ![s] = 0]
    /\ firstFail' = [firstFail EXCEPT ![s] = "none"]
    /\ result' = [result EXCEPT ![s] = NoResult]
    /\ UNCHANGED <<settings, request_sem, calls, connVars>>

(***************************************************************************)
(* The callers' messages and the peer's behaviour.                         *)
(***************************************************************************)
RECURSIVE SeqsUpTo(_, _)
SeqsUpTo(A, n) ==
    IF n = 0 THEN {<<>>}
    ELSE LET shorter == SeqsUpTo(A, n - 1)
         IN  shorter \union {Append(t, a) : t \in shorter, a \in A}

Request(method, fields, body) ==
    <<method, "SP", "PATH", "CRLF", "HOST">> \o fields \o DELIM \o body

BodyChars == {"a", "e2", "CL"}

Bodies == SeqsUpTo(BodyChars, MaxBodyLen)

\* requests without a Content-Length field, and requests that carry one, in the
\* spelling the code writes or in lower case
Messages ==
    {Request(m, f, b) : m \in {"POST", "HEAD"},
                        f \in {<<>>, <<"CRLF", "CL", "7">>, <<"CRLF", "cl", "7">>},
                        b \in Bodies}

RetryMessages == {Request("POST", <<>>, <<"a">>), Request("HEAD", <<>>, <<>>)}

\* what one read can return
Chunks ==
    { Encode(<<"S200", "CRLF", "CL", "1", "CRLF", "CRLF", "a">>),
      Encode(<<"S200", "CRLF", "CL", "1", "CRLF", "CRLF">>),
      Encode(<<"a">>),
      Encode(<<"S200", "CRLF">>),
      Encode(<<"S200", "CRLF", "TE", "CRLF", "CRLF">>),
      Encode(<<"S200", "CRLF", "te", "CRLF", "CRLF", "a">>),
      Encode(<<"0", "CRLF", "CRLF">>),
      Encode(<<"S204", "CRLF", "CRLF">>),
      <<"xFF">> }

FewChunks ==
    { Encode(<<"S200", "CRLF", "CL", "1", "CRLF", "CRLF">>),
      Encode(<<"a">>),
      Encode(<<"S200", "CRLF", "te", "CRLF", "CRLF", "a">>),
      Encode(<<"0", "CRLF", "CRLF">>) }

TwoChunks ==
    { Encode(<<"S200", "CRLF", "CL", "1", "CRLF", "CRLF">>),
      Encode(<<"S200", "CRLF", "te", "CRLF", "CRLF", "a">>) }

\* what one read can return, with the headers the assembler tells apart
RecvChunks ==
    { Encode(<<"S200", "CRLF", "CL", "1", "CRLF", "CRLF", "a">>),
      Encode(<<"S200", "CRLF", "CL", "1", "CRLF", "CRLF">>),
      Encode(<<"a">>),
      Encode(<<"S200", "CRLF">>),
      Encode(<<"S200", "CRLF", "TE", "CRLF", "CRLF">>),
      Encode(<<"S200", "CRLF", "te", "CRLF", "CRLF", "a">>),
      Encode(<<"S200", "CRLF", "tE", "CRLF", "CRLF">>),
      Encode(<<"S200", "CRLF", "CL", "1", "CRLF", "CRLF", "TE", "CRLF">>),
      Encode(<<"S200", "CRLF", "e2", "CRLF", "CL", "1", "CRLF", "CRLF">>),
      Encode(<<"0", "CRLF", "CRLF">>),
      Encode(<<"S204", "CRLF", "CL", "1", "CRLF", "CRLF">>),
      <<"xFF">> }

FewErrors == {[type |-> "OSError", timedOut |-> FALSE, closedStr |-> TRUE]}

(***************************************************************************)
(* Specifications.                                                         *)
(***************************************************************************)
Init == InitWith(AllSettings)

\* one session, any peer
Next ==
    \E s \in {1} :
        \/ sendRecv(s, RetryMessages, MaxCalls)
        \/ closeSocket(s, OSErrors)
        \/ connect(s)
        \/ sendRequest(s)
        \/ begin_throttle_request(s)
        \/ sendall(s, OSErrors)
        \/ end_throttle_request(s)
        \/ recvHeader(s, Chunks, OSErrors)
        \/ chunkedLoop(s)
        \/ recvChunked(s, Chunks, OSErrors)
        \/ recvBody(s, Chunks, OSErrors)
        \/ handleResponse(s)
        \/ handleError(s)
        \/ finish(s)

Spec == Init /\ [][Next]_vars

\* one session, every message, a peer that answers in few ways
NextFrame ==
    \E s \in {1} :
        \/ sendRecv(s, Messages, 1)
        \/ closeSocket(s, FewErrors)
        \/ connect(s)
        \/ sendRequest(s)
        \/ begin_throttle_request(s)
        \/ sendall(s, FewErrors)
        \/ end_throttle_request(s)
        \/ recvHeader(s, FewChunks, FewErrors)
        \/ chunkedLoop(s)
        \/ recvChunked(s, FewChunks, FewErrors)
        \/ recvBody(s, FewChunks, FewErrors)
        \/ handleResponse(s)
        \/ handleError(s)
        \/ finish(s)

SpecFrame == Init /\ [][NextFrame]_vars

\* every session in its own thread, one message, a peer that answers in few ways
NextConc ==
    \E s \in Sessions :
        \/ sendRecv(s, {Request("POST", <<>>, <<"a">>)}, 1)
        \/ closeSocket(s, FewErrors)
        \/ connect(s)
        \/ sendRequest(s)
        \/ begin_throttle_request(s)
        \/ sendall(s, FewErrors)
        \/ end_throttle_request(s)
        \/ recvHeader(s, TwoChunks, FewErrors)
        \/ chunkedLoop(s)
        \/ recvChunked(s, TwoChunks, FewErrors)
        \/ recvBody(s, TwoChunks, FewErrors)
        \/ handleResponse(s)
        \/ handleError(s)
        \/ finish(s)

InitConc == InitWith({st \in AllSettings : ~st.ignore /\ ~st.ua})

SpecConc == InitConc /\ [][NextConc]_vars

\* one session, one call, a peer whose headers the assembler tells apart
NextRecv ==
    \E s \in {1} :
        \/ sendRecv(s, RetryMessages, 1)
        \/ closeSocket(s, FewErrors)
        \/ connect(s)
        \/ sendRequest(s)
        \/ begin_throttle_request(s)
        \/ sendall(s, FewErrors)
        \/ end_throttle_request(s)
        \/ recvHeader(s, RecvChunks, FewErrors)
        \/ chunkedLoop(s)
        \/ recvChunked(s, RecvChunks, FewErrors)
        \/ recvBody(s, RecvChunks, FewErrors)
        \/ handleResponse(s)
        \/ handleError(s)
        \/ finish(s)

InitRecv == InitWith({st \in AllSettings : ~st.throttle /\ ~st.ua})

SpecRecv == InitRecv /\ [][NextRecv]_vars

\* one session, one call, a peer that may go on sending for ever; every step
\* that can be taken is taken in the end (a thread runs on, and each socket
\* operation completes)
LiveChunks == FewChunks \union {<<"xFF">>}

NextLive ==
    \E s \in {1} :
        \/ sendRecv(s, RetryMessages, 1)
        \/ closeSocket(s, FewErrors)
        \/ connect(s)
        \/ sendRequest(s)
        \/ begin_throttle_request(s)
        \/ sendall(s, FewErrors)
        \/ end_throttle_request(s)
        \/ recvHeader(s, LiveChunks, FewErrors)
        \/ chunkedLoop(s)
        \/ recvChunked(s, LiveChunks, FewErrors)
        \/ recvChunkedMore(s)
        \/ recvBody(s, LiveChunks, FewErrors)
        \/ handleResponse(s)
        \/ handleError(s)
        \/ finish(s)

SpecLive == InitRecv /\ [][NextLive]_vars /\ WF_vars(NextLive)

(***************************************************************************)
(* Properties.                                                             *)
(***************************************************************************)
TransportError(e) == e.type = "TransportLayerException"

\* the call of session s has ended: it returned a pair, or raised
Ended(s) == pc[s] \in {"returned", "raised"}

\* C1: an external sendRecv call makes at most two send attempts and at most one
\* reconnect-and-retry, whatever the outcomes of its attempts are.
C1_AtMostTwoSends ==
    \A s \in Sessions : sends[s] <= 2 /\ reconnects[s] <= 1

\* a call that returned after a second send
C1_Witness ==
    \E s \in Sessions : pc[s] = "returned" /\ sends[s] = 2 /\ reconnects[s] = 1

\* C2: no failure while framing, sending, reading or decoding leaves sendRecv as a
\* raised error.  (The claim also covers failures of the connection setup and of
\* the throttle; those are left out here, so what is refuted is part of the claim.)
C2_NeverRaises ==
    \A s \in Sessions :
        pc[s] = "raised" => exc[s] \in {ConnectionSetupError, AttributeError}

\* the retry of session s ended with an empty response
RetryEmpty(s) ==
    pc[s] = "returned" /\ reconnect[s] /\ exc[s] = NoExc /\ data[s] = <<>>

\* the retry of session s ended with a transport error that is not a timeout
RetryError(s) ==
    pc[s] = "returned" /\ reconnect[s] /\ TransportError(exc[s]) /\ ~exc[s].timedOut

\* C3, as claimed: when the first attempt and the retry both end in a qualifying
\* failure (an empty response, or a transport error that is not a timeout), the
\* call returns success = false, with status CONNECTION_CLOSED when the retry's
\* error is a connection-closed error, and no third attempt is made.
C3_TwoFailuresFail ==
    \A s \in Sessions :
        (RetryEmpty(s) \/ RetryError(s)) =>
            /\ ~result[s].success
            /\ exc[s].closedStr => result[s].status = "CONNECTION_CLOSED"
            /\ sends[s] <= 2 /\ reconnects[s] = 1

\* C3, amended: when the retry ends in a transport error that is not a timeout, the
\* call returns success = false, with status CONNECTION_CLOSED when that error is a
\* connection-closed error; when the retry ends in an empty response, the call
\* returns success = true with the empty response.  Neither makes a third attempt.
C3_RetryIsTerminal ==
    \A s \in Sessions :
        /\ RetryError(s) =>
              /\ ~result[s].success
              /\ result[s].error = exc[s]
              /\ exc[s].closedStr => result[s].status = "CONNECTION_CLOSED"
              /\ sends[s] <= 2 /\ reconnects[s] = 1
        /\ RetryEmpty(s) =>
              /\ result[s].success
              /\ result[s].text = <<>>
              /\ sends[s] <= 2 /\ reconnects[s] = 1

\* an empty response, then a connection-closed error on the retry
C3_Witness ==
    \E s \in Sessions :
        /\ RetryError(s) /\ exc[s].closedStr
        /\ firstFail[s] = "empty" /\ sends[s] = 2

\* C4: when an attempt ends in a transport error whose text has 'timed out', the
\* next step of the call is to return success = false with status TIMEOUT: no
\* reconnect and no send follow.
C4_TimeoutIsTerminal ==
    [][\A s \in Sessions :
          (pc[s] = "except" /\ exc[s].timedOut /\ pc'[s] # "except") =>
              /\ pc'[s] = "returned"
              /\ ~result'[s].success
              /\ result'[s].status = "TIMEOUT"
              /\ sends'[s] = sends[s]
              /\ reconnects'[s] = reconnects[s]
              /\ reconnect'[s] = reconnect[s]
              /\ sock'[s] = sock[s]]_vars

\* a retry that timed out
C4_Witness ==
    \E s \in Sessions :
        /\ pc[s] = "returned" /\ reconnect[s]
        /\ TransportError(exc[s]) /\ exc[s].timedOut
        /\ result[s].status = "TIMEOUT"

\* the first attempt of session s ended in a transport error that is not a timeout
FirstError(s) == firstFail[s] \in {"closed", "other"}

C6_EmptyResponseRetriedOnce ==
    [][\A s \in Sessions :
          /\ (pc[s] = "recv_header" /\ pc'[s] = "received" /\ ~HasDelim(data'[s])) =>
                data'[s] = data[s] /\ exc'[s] = NoExc
          /\ (pc[s] = "received" /\ data[s] = <<>> /\ pc'[s] # "received") =>
                IF reconnect[s]
                THEN /\ pc'[s] = "returned"
                     /\ reconnects'[s] = reconnects[s]
                     /\ sock'[s] = sock[s]
                ELSE /\ pc'[s] = "close"
                     /\ reconnect'[s]
                     /\ reconnects'[s] = 1]_vars

\* no bytes on the first attempt, and no bytes on the retry
C6_Witness ==
    \E s \in Sessions :
        /\ RetryEmpty(s) /\ firstFail[s] = "empty"
        /\ reconnects[s] = 1 /\ sends[s] = 2

C9_WaiterAcquires ==
    [][\A s \in Sessions :
          (settings.throttle /\ pc[s] = "begin_throttle" /\ pc'[s] # "begin_throttle") =>
              request_sem' = 0 /\ pc'[s] = "sendall"]_vars

\* the field section of a message has a Content-Length field, in any letter-casing
HasContentLengthField(m) == \E i \in DOMAIN HeaderOf(m) : m[i] \in {"CL", "cl"}

\* the Content-Length a reader of the written bytes finds: the number after the
\* first Content-Length field name of the header, -1 if there is none
ParsedContentLength(bytes) ==
    LET header == SubSeq(bytes, 1, IndexOfDelim(bytes) - 1)
        i == IndexOfAny(header, {"CL", "cl"})
        field == UpToCRLF(SubSeq(header, i + 1, Len(header)))
    IN  IF i # 0 /\ IsNumber(field) THEN DigitsToInt(field) ELSE 0 - 1

\* the bytes written after the first delimiter
WrittenBody(bytes) == SubSeq(bytes, IndexOfDelim(bytes) + 2, Len(bytes))

\* C10: for a message without a Content-Length field, the Content-Length read back
\* from the bytes written to the socket equals the number of body bytes written.
C10_ContentLengthIsByteLength ==
    \A s \in Sessions :
        \A i \in DOMAIN wire[s] :
            ~HasContentLengthField(msg[s]) =>
                ParsedContentLength(wire[s][i]) = ByteLen(WrittenBody(wire[s][i]))

\* how many tokens of the set toks the text t has
CountIn(t, toks) == Cardinality({i \in DOMAIN t : t[i] \in toks})

\* the bytes written before the first delimiter
WrittenHeader(bytes) == SubSeq(bytes, 1, IndexOfDelim(bytes) - 1)

IsPrefix(p, t) == Len(p) <= Len(t) /\ SubSeq(t, 1, Len(p)) = p

\* C11: what is written has exactly one Content-Length field after the caller's
\* own header lines: the caller's, when the header of the message has one in any
\* letter-casing, and otherwise the one framing inserts, also when the body has
\* the text "Content-Length: ".
C11_InsertedIffAbsent ==
    \A s \in Sessions :
        \A i \in DOMAIN wire[s] :
            LET written == WrittenHeader(wire[s][i])
            IN  /\ IsPrefix(Encode(HeaderOf(msg[s])), written)
                /\ CountIn(written, {"CL", "cl"}) = 1

\* the cases of lines 438-441: a 204 or 304 status line, or a HEAD request
ZeroLength(d, message) ==
    \/ d # <<>> /\ d[1] \in {"S204", "S304"}
    \/ get_method_from_message(message) = <<"HEAD">>

\* the text after the first delimiter of a buffered response
ResponseBody(d) == SubSeq(d, IndexOfDelim(d) + 2, Len(d))

\* C12 as stated: once the header of a 204, a 304 or an answer to HEAD is
\* buffered, no read loop runs, and what _recvResponse returns has an empty body.
C12_NoReadEmptyBody ==
    \A s \in Sessions :
        ZeroLength(data[s], msg[s]) /\ HasDelim(data[s]) =>
            /\ pc[s] \notin {"recv_chunked", "chunk_read", "recv_body"}
            /\ pc[s] = "received" => ResponseBody(data[s]) = <<>>

\* C12, amended: the read that buffers the delimiter of a 204, a 304 or an
\* answer to HEAD is the last one, whatever Content-Length the header declares,
\* unless the buffer has a chunked line and does not end with the delimiter;
\* what was buffered is returned as it is.
C12_StopsAtHeader ==
    [][\A s \in Sessions :
          /\ pc[s] = "recv_header"
          /\ HasDelim(data'[s])
          /\ ZeroLength(data'[s], msg'[s])
          => /\ reads'[s] = reads[s] + 1
             /\ pc'[s] = IF IsChunked(data'[s]) /\ ~EndsWithDelim(data'[s])
                         THEN "recv_chunked" ELSE "received"
             /\ pc'[s] = "received" => bytes_remain'[s] <= 0]_vars

\* a 204 that declares Content-Length: 1 was returned after one read
C12_Witness ==
    \E s \in Sessions :
        /\ pc[s] = "received"
        /\ reads[s] = 1
        /\ data[s] = <<"S204", "CRLF", "CL", "1", "CRLF", "CRLF">>
        /\ get_method_from_message(msg[s]) = <<"POST">>

\* the header section of d has a 'Transfer-Encoding: chunked' line, in any
\* letter-casing
HeaderDeclaresChunked(d) ==
    /\ HasDelim(d)
    /\ \E i \in 1..(IndexOfDelim(d) - 1) :
          d[i] \in {"TE", "te", "tE"} /\ d[i + 1] = "CRLF"

\* the states in which the assembler is about to read after the header
Reading(s) == pc[s] \in {"recv_chunked", "chunk_read", "recv_body"}

\* C13: for a response whose header declares chunked transfer-encoding, the
\* assembler never reads again once the buffer ends with the delimiter, and
\* returns only with a buffer that ends with the delimiter or after a read of
\* zero bytes (the only reads that leave the buffer as it was, tolerated
\* undecodable bytes apart).
C13_ChunkedStopsAtDelimiter ==
    \A s \in Sessions :
        HeaderDeclaresChunked(data[s]) =>
            /\ Reading(s) => ~EndsWithDelim(data[s])
            /\ pc[s] # "recv_body"

\* C13 for the two spellings the assembler recognises: the loop of lines 420-434
\* is never in a reading state with a buffer that ends with the delimiter
C13_RecognisedStopsAtDelimiter ==
    \A s \in Sessions :
        /\ HeaderDeclaresChunked(data[s])
        /\ IsChunked(SubSeq(data[s], 1, IndexOfDelim(data[s])))
        /\ Reading(s)
        => pc[s] \in {"recv_chunked", "chunk_read"} /\ ~EndsWithDelim(data[s])

\* the header section of d, up to the end of its last line
HeaderSection(d) == SubSeq(d, 1, IndexOfDelim(d))

\* the bytes of the header, delimiter included
HeaderBytes(d) == ByteLen(Encode(SubSeq(d, 1, IndexOfDelim(d) + 1)))

\* d has a 'Transfer-Encoding: chunked' line somewhere, in any letter-casing
AnyChunkedLine(d) ==
    \E i \in 1..(Len(d) - 1) : d[i] \in {"TE", "te", "tE"} /\ d[i + 1] = "CRLF"

\* a response that is not chunked (it has no chunked line at all, in the header
\* or after it) and not of zero length, whose header declares a Content-Length
\* that parses
DeclaresLength(d, message) ==
    /\ HasDelim(d)
    /\ ~AnyChunkedLine(d)
    /\ ~ZeroLength(d, message)
    /\ IndexOfAny(HeaderSection(d), {"CL", "cl"}) # 0
    /\ DeclaredLength(HeaderSection(d)) # ContentLenFallback

\* C14: for such a response, a read that returns bytes is the last one exactly
\* when the bytes received over the whole response have reached the bytes of the
\* header plus the declared length.  (Stated where every byte is decoded, so
\* that the buffer holds all the bytes received.)
C14_ReadsUntilLength ==
    [][\A s \in Sessions :
          /\ ~settings.ignore
          /\ pc[s] \in {"recv_header", "chunk_read", "recv_body"}
          /\ data'[s] # data[s]
          /\ DeclaresLength(data'[s], msg'[s])
          => (pc'[s] = "received"
                <=> ByteLen(Encode(data'[s])) >=
                       HeaderBytes(data'[s]) + DeclaredLength(HeaderSection(data'[s])))]_vars

\* C15: a buffer that cannot be decoded gives an error only with the tolerance
\* disabled, and then the error is caught in sendRecv and the call returns a
\* failure result, in whichever read phase it happened.
C15_DecodeFailureIsResult ==
    \A s \in Sessions :
        exc[s] = UnicodeDecodeError =>
            /\ ~settings.ignore
            /\ pc[s] \in {"except", "returned"}
            /\ pc[s] = "returned" => ~result[s].success

\* C16 as stated: every sendRecv call that has started ends, whatever the peer
\* sends.
C16_CallEnds ==
    \A s \in Sessions : pc[s] # "idle" ~> Ended(s)

\* C16, amended: every sendRecv call that has started ends, if from some point on
\* the peer sends no further buffer into the chunked loop.
C16_CallEndsIfPeerStops ==
    \A s \in Sessions :
        <>[][~recvChunkedMore(s)]_vars => (pc[s] # "idle" ~> Ended(s))

\* a call that was retried, and read as many buffers as the peer had, returned
C16_Witness ==
    \E s \in Sessions :
        pc[s] = "returned" /\ reconnect[s] /\ reads[s] = MaxReads

C18_ConnectedHasOpenSocket ==
    \A s \in Sessions :
        pc[s] \in {"returned", "sendall"} /\ connected[s] => sock[s] = "open"

\* C19: once the header is buffered, the chunked loop runs only for a response
\* whose header section has a chunked line, and the Content-Length loop never
\* runs for such a response, whatever the letter-casing of the line.
C19_ChunkedIffHeaderDeclares ==
    \A s \in Sessions :
        HasDelim(data[s]) =>
            /\ pc[s] \in {"recv_chunked", "chunk_read"} => HeaderDeclaresChunked(data[s])
            /\ pc[s] = "recv_body" => ~HeaderDeclaresChunked(data[s])

\* C20: when both attempts of a call wrote their message, the retry wrote the
\* bytes the first attempt wrote, with one User-Agent line when that is
\* configured and one Content-Length field when framing inserted it.
C20_RetryWritesSameBytes ==
    \A s \in Sessions :
        Len(wire[s]) = 2 =>
            /\ wire[s][2] = wire[s][1]
            /\ settings.ua => CountIn(WrittenHeader(wire[s][2]), {"UA"}) = 1
            /\ NeedsContentLength(msg[s]) =>
                  CountIn(WrittenHeader(wire[s][2]), {"CL"}) = 1

\* the retry wrote a message into which both headers were inserted
C20_Witness ==
    \E s \in Sessions :
        /\ Len(wire[s]) = 2
        /\ reconnect[s]
        /\ settings.ua
        /\ NeedsContentLength(msg[s])
        /\ BodyOf(msg[s]) # <<>>

====
